---- MODULE Spec2Model ----
(***************************************************************************)
(* A model of the Ghost API client (ghost_api.py: class Ghost) and of the  *)
(* markdown push helper (ghost_md.py: push).                               *)
(*                                                                         *)
(* Strings the code inspects character by character (the path, the admin   *)
(* key, the base URL, a file name) are sequences of one-character strings. *)
(* JSON values are records [t, v]: t is "obj" (v a function from keys),    *)
(* "arr" (v a sequence), "str" (v a string) or "null" (Python's None).     *)
(* A response body is a record [text, val]: the text received and what     *)
(* json.loads makes of it ("invalid" when it is not JSON).                 *)
(* An exception is a record [cls, code, msg]: the Python class raised and, *)
(* for the Exception("HTTP {code}: {msg}") of _request, the two values     *)
(* interpolated into its message.                                          *)
(***************************************************************************)
EXTENDS Integers, Sequences, FiniteSets, TLC

VARIABLES cfg, clock, server, seq, pc, op, log, result, nops

vars == <<cfg, clock, server, seq, pc, op, log, result, nops>>

----------------------------------------------------------------------------
(* Bounds *)

\* wall-clock values the model lets time.time() reach
MaxClock == 1
\* operations one caller starts in a behaviour of Spec
MaxOps == 1
\* changes of the post's updated_at the server makes
MaxWrites == 1

----------------------------------------------------------------------------
(* Program constants *)

\* exp = now + 300
JwtLifetime == 300

Callers == {1}
RaceCallers == {1, 2}
AllCallers == {1, 2}

----------------------------------------------------------------------------
(* Character strings *)

StartsWith(s, prefix) ==
    /\ Len(s) >= Len(prefix)
    /\ SubSeq(s, 1, Len(prefix)) = prefix

HasChar(s, c) == \E i \in 1..Len(s) : s[i] = c

FirstIndex(s, c) == CHOOSE i \in 1..Len(s) : s[i] = c /\ \A j \in 1..(i - 1) : s[j] # c

LastIndex(s, c) == CHOOSE i \in 1..Len(s) : s[i] = c /\ \A j \in (i + 1)..Len(s) : s[j] # c

RECURSIVE RStripSlash(_)
RStripSlash(s) ==
    IF Len(s) > 0 /\ s[Len(s)] = "/" THEN RStripSlash(SubSeq(s, 1, Len(s) - 1)) ELSE s

HexDigits == {"0", "1", "2", "3", "4", "5", "6", "7", "8", "9",
              "a", "b", "c", "d", "e", "f", "A", "B", "C", "D", "E", "F"}

\* bytes.fromhex accepts pairs of hexadecimal digits
IsHex(s) == Len(s) % 2 = 0 /\ \A i \in 1..Len(s) : s[i] \in HexDigits

cContent == <<"c", "o", "n", "t", "e", "n", "t", "/">>
cAdmin == <<"a", "d", "m", "i", "n", "/">>
cPosts == <<"p", "o", "s", "t", "s">>

----------------------------------------------------------------------------
(* JSON values, bodies, exceptions, outcomes *)

Empty == [k \in {} |-> ""]

Obj(f) == [t |-> "obj", v |-> f]
Arr(s) == [t |-> "arr", v |-> s]
Str(s) == [t |-> "str", v |-> s]
Null == [t |-> "null", v |-> "null"]
Invalid == [t |-> "invalid", v |-> ""]

Err(cls, code, msg) == [cls |-> cls, code |-> code, msg |-> msg]
NoErr == Err("none", 0, "")

Ok(value) == [status |-> "ok", value |-> value, err |-> NoErr]
Raise(e) == [status |-> "err", value |-> Null, err |-> e]
NoResult == [status |-> "none", value |-> Null, err |-> NoErr]

\* str(x) as an f-string interpolates it
PyStr(j) == IF j.t = "str" THEN j.v ELSE IF j.t = "null" THEN "None" ELSE "<json>"

\* x[key] of a value that came out of json.loads
Subscript(j, key) ==
    IF j.t = "obj"
    THEN IF key \in DOMAIN j.v THEN Ok(j.v[key]) ELSE Raise(Err("KeyError", 0, key))
    ELSE Raise(Err("TypeError", 0, ""))

\* x[0]
Index0(j) ==
    CASE j.t = "arr" -> IF Len(j.v) > 0 THEN Ok(j.v[1]) ELSE Raise(Err("IndexError", 0, ""))
      [] j.t = "obj" -> Raise(Err("KeyError", 0, "0"))
      [] j.t = "str" -> IF j.v # "" THEN Ok(Str(j.v)) ELSE Raise(Err("IndexError", 0, ""))
      [] OTHER -> Raise(Err("TypeError", 0, ""))

GetPosts(o) == IF o.status = "err" THEN o ELSE Subscript(o.value, "posts")
GetUpdatedAt(o) == IF o.status = "err" THEN o ELSE Subscript(o.value, "updated_at")
GetImages(o) == IF o.status = "err" THEN o ELSE Subscript(o.value, "images")
GetUrl(o) == IF o.status = "err" THEN o ELSE Subscript(o.value, "url")
First(o) == IF o.status = "err" THEN o ELSE Index0(o.value)

\* result["posts"][0]: an exception raised by an earlier step propagates
FirstPost(o) == First(GetPosts(o))

Envelope(post) == Obj([posts |-> Arr(<<Obj(post)>>)])

----------------------------------------------------------------------------
(* Configuration: Ghost.__init__ *)

Urls == {<< >>, <<"/">>, <<"h">>, <<"h", "/">>}
ContentKeys == {"", "ck"}
\* absent, no separator, secret not hexadecimal, odd number of digits, well-formed
AdminKeys == {<< >>, <<"k", "0", "a">>, <<"k", ":", "z", "z">>,
              <<"k", ":", "a">>, <<"k", ":", "0", "a">>}

NewGhost(url, content_key, admin_key) ==
    LET u == RStripSlash(url)
    IN  [url |-> u, content_key |-> content_key, admin_key |-> admin_key,
         err |-> IF u = << >> THEN Err("EnvironmentError", 0, "GHOST_API_URL is not set")
                 ELSE NoErr]

Constructed == cfg.err = NoErr

----------------------------------------------------------------------------
(* Ghost._jwt *)

\* a token issued once and kept
JwtNow_Cached(now) == 0
JwtNow(now) == now

AdminKeyUsable(key) == key # << >> /\ HasChar(key, ":")

DecodeSecret(secret) ==
    IF IsHex(secret) THEN Ok(Str("bytes")) ELSE Raise(Err("ValueError", 0, "non-hexadecimal number found in fromhex() arg"))

Jwt(c, now) ==
    IF ~AdminKeyUsable(c.admin_key)
    THEN Raise(Err("EnvironmentError", 0, "GHOST_ADMIN_API_KEY is not set or invalid (expected id:secret)"))
    ELSE LET i == FirstIndex(c.admin_key, ":")
             kid == SubSeq(c.admin_key, 1, i - 1)
             secret == SubSeq(c.admin_key, i + 1, Len(c.admin_key))
             iat == JwtNow(now)
             header == [alg |-> "HS256", kid |-> kid, typ |-> "JWT"]
             payload == [iat |-> iat, exp |-> iat + JwtLifetime, aud |-> "/admin/"]
         IN  IF DecodeSecret(secret).status = "err"
             THEN DecodeSecret(secret)
             ELSE Ok([header |-> header, payload |-> payload,
                      sig |-> [key |-> secret, msg |-> <<header, payload>>]])

----------------------------------------------------------------------------
(* Ghost._request: authentication by path prefix and the request built *)

IsContentPath(path) == StartsWith(path, cContent)
\* the prefix compared without its slash
IsAdminPath_NoSlash(path) == StartsWith(path, <<"a", "d", "m", "i", "n">>)
IsAdminPath(path) == StartsWith(path, cAdmin)

SetKey(d, key, val) == [k \in DOMAIN d \cup {key} |-> IF k = key THEN val ELSE d[k]]

\* params = dict(params or {}); params["key"] = self.content_key
WithContentKey(params, content_key) == SetKey(params, "key", content_key)

\* body = json.dumps(data).encode() with its Content-Type, when data is not None
WithJsonBody(headers, data) ==
    IF data.t # "null" THEN SetKey(headers, "Content-Type", "application/json") ELSE headers

Body(text, val) == [text |-> text, val |-> val]
BodyEmpty == Body("", Invalid)
NoResp == [kind |-> "none", status |-> 0, body |-> BodyEmpty]

Request(method, path, params, headers, data, now) ==
    [method |-> method, path |-> path, params |-> params, headers |-> headers,
     body |-> data, at |-> now, resp |-> NoResp, seq |-> 0]

Prepare(c, method, path, data, params, now) ==
    IF IsContentPath(path)
    THEN IF c.content_key = ""
         THEN Raise(Err("EnvironmentError", 0, "GHOST_CONTENT_API_KEY is not set"))
         ELSE Ok(Request(method, path, WithContentKey(params, c.content_key),
                         WithJsonBody(Empty, data), data, now))
    ELSE IF IsAdminPath(path)
    THEN IF Jwt(c, now).status = "err"
         THEN Jwt(c, now)
         ELSE Ok(Request(method, path, params,
                         WithJsonBody([Authorization |-> [scheme |-> "Ghost", token |-> Jwt(c, now).value]], data),
                         data, now))
    ELSE Raise(Err("ValueError", 0, "Path must start with content/ or admin/"))

----------------------------------------------------------------------------
(* Ghost._request: the response *)

Is2xx(status) == 200 <= status /\ status < 300

\* the except clause catches json.JSONDecodeError, IndexError and KeyError
Caught(cls) == cls \in {"JSONDecodeError", "IndexError", "KeyError"}

\* err.get(key, default)
DictGet(j, key, default) ==
    IF j.t = "obj"
    THEN Ok(IF key \in DOMAIN j.v THEN j.v[key] ELSE default)
    ELSE Raise(Err("AttributeError", 0, "get"))

\* msg = err.get("errors", [{}])[0].get("message", error_body)
ErrorMessage(body) ==
    IF body.val.t = "invalid"
    THEN Raise(Err("JSONDecodeError", 0, ""))
    ELSE LET errors == DictGet(body.val, "errors", Arr(<<Obj(Empty)>>))
             first == First(errors)
         IN  IF first.status = "err" THEN first
             ELSE DictGet(first.value, "message", Str(body.text))

\* the status left out of the exception
HttpError_NoCode(code, body) == Raise(Err("Exception", 0, body.text))

HttpError(code, body) ==
    LET m == ErrorMessage(body)
    IN  IF m.status = "ok" THEN Raise(Err("Exception", code, PyStr(m.value)))
        ELSE IF Caught(m.err.cls) THEN Raise(Err("Exception", code, body.text))
        ELSE m

JsonLoads(body) ==
    IF body.val.t = "invalid" THEN Raise(Err("JSONDecodeError", 0, "")) ELSE Ok(body.val)

HandleResponse(r) ==
    IF r.kind = "transport" THEN Raise(Err("URLError", 0, "transport"))
    ELSE IF ~Is2xx(r.status) THEN HttpError(r.status, r.body)
    ELSE IF r.status = 204 THEN Ok(Null)
    ELSE JsonLoads(r.body)

----------------------------------------------------------------------------
(* Ghost.create_post, Ghost.update_post, push *)

AdminPosts == cAdmin \o cPosts
PostPath(post_id) == cAdmin \o cPosts \o <<"/">> \o post_id

\* source=html whatever the payload
SourceParams_Always(post_data) == [source |-> "html"]

SourceParams(post_data) ==
    IF "html" \in DOMAIN post_data THEN [source |-> "html"] ELSE Empty

CreateRequest(c, post_data, now) ==
    Prepare(c, "POST", AdminPosts, Envelope(post_data), SourceParams(post_data), now)

NoneTs == "None"

NeedsFetch(updated_at) == updated_at = NoneTs

FetchRequest(c, post_id, now) == Prepare(c, "GET", PostPath(post_id), Null, Empty, now)

\* post_data.setdefault("updated_at", updated_at)
SetUpdatedAt_KeepExisting(post_data, updated_at) ==
    IF "updated_at" \in DOMAIN post_data THEN post_data ELSE SetKey(post_data, "updated_at", updated_at)

\* post_data["updated_at"] = updated_at
SetUpdatedAt(post_data, updated_at) == SetKey(post_data, "updated_at", updated_at)

UpdateRequest(c, post_id, post_data, updated_at, now) ==
    Prepare(c, "PUT", PostPath(post_id), Envelope(SetUpdatedAt(post_data, updated_at)),
            SourceParams(SetUpdatedAt(post_data, updated_at)), now)

\* the failure of the GET swallowed
Propagates_Never(o) == FALSE

\* an exception raised by self.get(...)["posts"][0]["updated_at"] leaves the operation
Propagates(o) == o.status = "err"

PushRequest(c, post_id, html, updated_at, now) ==
    Prepare(c, "PUT", PostPath(post_id),
            Envelope([html |-> html, updated_at |-> updated_at]), [source |-> "html"], now)

----------------------------------------------------------------------------
(* Ghost.upload *)

cPng == <<"p", "n", "g">>
cJpg == <<"j", "p", "g">>
Lower(ch) == CASE ch = "J" -> "j" [] ch = "P" -> "p" [] ch = "G" -> "g" [] ch = "N" -> "n" [] OTHER -> ch
LowerAll(s) == [i \in 1..Len(s) |-> Lower(s[i])]

\* filename.rsplit(".", 1)[-1].lower() if "." in filename else ""
Extension(filename) ==
    IF HasChar(filename, ".")
    THEN LowerAll(SubSeq(filename, LastIndex(filename, ".") + 1, Len(filename)))
    ELSE << >>

ContentTypeOf(ext) ==
    CASE ext = cJpg -> "image/jpeg"
      [] ext = <<"j", "p", "e", "g">> -> "image/jpeg"
      [] ext = cPng -> "image/png"
      [] ext = <<"g", "i", "f">> -> "image/gif"
      [] ext = <<"w", "e", "b", "p">> -> "image/webp"
      [] ext = <<"s", "v", "g">> -> "image/svg+xml"
      [] OTHER -> "application/octet-stream"

UploadPath == cAdmin \o <<"i", "m", "a", "g", "e", "s", "/", "u", "p", "l", "o", "a", "d", "/">>

Multipart(filename, ref, now) ==
    [t |-> "multipart",
     v |-> [boundary |-> now, filename |-> filename,
            ct |-> ContentTypeOf(Extension(filename)), ref |-> ref]]

UploadRequest(c, file, ref, now) ==
    IF ~file.readable THEN Raise(Err("FileNotFoundError", 0, "open"))
    ELSE IF Jwt(c, now).status = "err" THEN Jwt(c, now)
    ELSE Ok(Request("POST", UploadPath, Empty,
                    SetKey([Authorization |-> [scheme |-> "Ghost", token |-> Jwt(c, now).value]],
                           "Content-Type", "multipart/form-data"),
                    Multipart(file.name, ref, now), now))

\* urlopen raises here uncaught; json.loads(resp.read().decode())["images"][0]["url"]
UploadResponse(r) ==
    IF r.kind = "transport" THEN Raise(Err("URLError", 0, "transport"))
    ELSE IF ~Is2xx(r.status) THEN Raise(Err("HTTPError", r.status, "reason"))
    ELSE GetUrl(First(GetImages(JsonLoads(r.body))))

----------------------------------------------------------------------------
(* Inputs the callers draw from *)

PostIds == {<<"1">>}

Paths == {cContent \o <<"p">>, cAdmin \o <<"p">>, <<"a", "d", "m", "i", "n">>,
          <<"p">>, <<"/">> \o cAdmin \o <<"p">>, << >>}

ParamsIn == {Empty, [formats |-> "html"], [key |-> "other"]}

DataIn == {Null, Obj([x |-> Str("1")])}

Payloads == {[title |-> Str("x")],
             [title |-> Str("x"), html |-> Str("<p>x</p>")],
             [title |-> Str("y"), updated_at |-> Str("t9")]}

CallerName(p) == IF p = 1 THEN "one" ELSE "two"
RacePayloads(p) == {[title |-> Str(CallerName(p))],
                    [title |-> Str(CallerName(p)), html |-> Str("<p>x</p>")]}

TsTable == <<"t0", "t1", "t2", "t3", "t4", "t5">>
Ts(n) == TsTable[n + 1]

\* no timestamp, the post's first timestamp, a stale one
KnownTs == {NoneTs, "t0", "t9"}

Files == {[name |-> <<"b", ".", "J", "P", "G">>, readable |-> TRUE],
          [name |-> <<"c">>, readable |-> TRUE],
          [name |-> <<"b", ".", "J", "P", "G">>, readable |-> FALSE]}

Refs == {"", "r"}

----------------------------------------------------------------------------
(* What the transport can answer *)

BodyTitleMissing ==
    Body("{\"errors\":[{\"message\":\"Title missing\"}]}",
         Obj([errors |-> Arr(<<Obj([message |-> Str("Title missing")])>>)]))
BodyCollision ==
    Body("{\"errors\":[{\"message\":\"Saving failed\"}]}",
         Obj([errors |-> Arr(<<Obj([message |-> Str("Saving failed")])>>)]))
BodyNoMessage == Body("{\"errors\":[{\"type\":\"E\"}]}", Obj([errors |-> Arr(<<Obj([type |-> Str("E")])>>)]))
BodyEmptyErrors == Body("{\"errors\":[]}", Obj([errors |-> Arr(<< >>)]))
BodyObject == Body("{}", Obj(Empty))
BodyList == Body("[]", Arr(<< >>))
BodyText == Body("oops", Invalid)
BodyPostsEmpty == Body("{\"posts\":[]}", Obj([posts |-> Arr(<< >>)]))
BodyPostNoTs == Body("{\"posts\":[{\"id\":\"1\"}]}", Envelope([id |-> Str("1")]))
BodyImage == Body("{\"images\":[{\"url\":\"u\"}]}", Obj([images |-> Arr(<<Obj([url |-> Str("u")])>>)]))

ErrorBodies == {BodyTitleMissing, BodyNoMessage, BodyEmptyErrors, BodyObject, BodyList,
                BodyText, BodyEmpty}
SuccessBodies == {BodyEmpty, BodyText, BodyObject, BodyPostsEmpty, BodyPostNoTs, BodyImage}

Http(status, body) == [kind |-> "http", status |-> status, body |-> body]
TransportFailure == [kind |-> "transport", status |-> 0, body |-> BodyEmpty]

CannedResponses ==
    {Http(204, BodyEmpty)}
    \cup {Http(200, b) : b \in SuccessBodies}
    \cup {Http(st, b) : st \in {422, 500}, b \in ErrorBodies}

----------------------------------------------------------------------------
(* The server's post, as the specification describes its timestamp check *)

InitServer == [v |-> 0, data |-> [title |-> Str("orig")]]

PostOf(srv, post_id) ==
    SetKey(SetKey(srv.data, "id", Str("1")), "updated_at", Str(Ts(srv.v)))

Merge(old, new) ==
    [k \in (DOMAIN old \cup DOMAIN new) \ {"updated_at"} |->
        IF k \in DOMAIN new THEN new[k] ELSE old[k]]

TimestampMatches(srv, post) ==
    /\ "updated_at" \in DOMAIN post
    /\ post["updated_at"].t = "str"
    /\ post["updated_at"].v = Ts(srv.v)

----------------------------------------------------------------------------
(* State *)

NoFile == [name |-> << >>, readable |-> FALSE]

NoOp ==
    [name |-> "none", method |-> "", path |-> << >>, data |-> Null, params |-> Empty,
     post_id |-> << >>, post_data |-> Empty, updated_at |-> NoneTs, stage |-> "",
     file |-> NoFile, ref |-> ""]

CallOp(name, method, path, data, params) ==
    [NoOp EXCEPT !.name = name, !.method = method, !.path = path, !.data = data,
                 !.params = params, !.stage = "request"]

Init ==
    /\ cfg \in {NewGhost(u, ck, ak) : u \in Urls, ck \in ContentKeys, ak \in AdminKeys}
    /\ clock = 0
    /\ server = InitServer
    /\ seq = 0
    /\ pc = [p \in AllCallers |-> "idle"]
    /\ op = [p \in AllCallers |-> NoOp]
    /\ log = [p \in AllCallers |-> << >>]
    /\ result = [p \in AllCallers |-> NoResult]
    /\ nops = [p \in AllCallers |-> 0]

InFlight(p) == log[p][Len(log[p])]

\* an operation begins: its first request is on the wire, or it has failed before any
Start(p, o, prep) ==
    /\ Constructed
    /\ pc[p] \in {"idle", "done"}
    /\ op' = [op EXCEPT ![p] = o]
    /\ nops' = [nops EXCEPT ![p] = @ + 1]
    /\ IF prep.status = "err"
       THEN /\ pc' = [pc EXCEPT ![p] = "done"]
            /\ log' = [log EXCEPT ![p] = << >>]
            /\ result' = [result EXCEPT ![p] = prep]
       ELSE /\ pc' = [pc EXCEPT ![p] = "wait"]
            /\ log' = [log EXCEPT ![p] = <<prep.value>>]
            /\ result' = [result EXCEPT ![p] = NoResult]
    /\ UNCHANGED <<cfg, clock, server, seq>>

\* the operation goes on with a further request, or fails building it
Send(p, stage, prep) ==
    /\ op' = [op EXCEPT ![p].stage = stage]
    /\ IF prep.status = "err"
       THEN /\ pc' = [pc EXCEPT ![p] = "done"]
            /\ log' = log
            /\ result' = [result EXCEPT ![p] = prep]
       ELSE /\ pc' = [pc EXCEPT ![p] = "wait"]
            /\ log' = [log EXCEPT ![p] = Append(@, prep.value)]
            /\ result' = result
    /\ UNCHANGED <<cfg, clock, server, seq, nops>>

Finish(p, outcome) ==
    /\ pc' = [pc EXCEPT ![p] = "done"]
    /\ result' = [result EXCEPT ![p] = outcome]
    /\ UNCHANGED <<cfg, clock, server, seq, op, log, nops>>

----------------------------------------------------------------------------
(* The callers' operations *)

Get(p) ==
    /\ nops[p] < MaxOps
    /\ \E path \in Paths, params \in ParamsIn :
          Start(p, CallOp("get", "GET", path, Null, params),
                Prepare(cfg, "GET", path, Null, params, clock))

Post(p) ==
    /\ nops[p] < MaxOps
    /\ \E path \in Paths, data \in DataIn, params \in ParamsIn :
          Start(p, CallOp("post", "POST", path, data, params),
                Prepare(cfg, "POST", path, data, params, clock))

Put(p) ==
    /\ nops[p] < MaxOps
    /\ \E path \in Paths, data \in DataIn, params \in ParamsIn :
          Start(p, CallOp("put", "PUT", path, data, params),
                Prepare(cfg, "PUT", path, data, params, clock))

Delete(p) ==
    /\ nops[p] < MaxOps
    /\ \E path \in Paths :
          Start(p, CallOp("delete", "DELETE", path, Null, Empty),
                Prepare(cfg, "DELETE", path, Null, Empty, clock))

CreatePost(p) ==
    /\ nops[p] < MaxOps
    /\ \E post_data \in Payloads :
          Start(p, [NoOp EXCEPT !.name = "create_post", !.post_data = post_data,
                                !.stage = "post"],
                CreateRequest(cfg, post_data, clock))

BeginUpdate(p, post_id, post_data, updated_at) ==
    IF NeedsFetch(updated_at)
    THEN Start(p, [NoOp EXCEPT !.name = "update_post", !.post_id = post_id,
                               !.post_data = post_data, !.updated_at = updated_at,
                               !.stage = "get"],
               FetchRequest(cfg, post_id, clock))
    ELSE Start(p, [NoOp EXCEPT !.name = "update_post", !.post_id = post_id,
                               !.post_data = post_data, !.updated_at = updated_at,
                               !.stage = "put"],
               UpdateRequest(cfg, post_id, post_data, Str(updated_at), clock))

UpdatePost(p) ==
    /\ nops[p] < MaxOps
    /\ \E post_id \in PostIds, post_data \in Payloads, updated_at \in KnownTs :
          BeginUpdate(p, post_id, post_data, updated_at)

Push(p) ==
    /\ nops[p] < MaxOps
    /\ \E post_id \in PostIds :
          Start(p, [NoOp EXCEPT !.name = "push", !.post_id = post_id,
                                !.post_data = [html |-> Str("<md>")], !.stage = "get"],
                FetchRequest(cfg, post_id, clock))

Upload(p) ==
    /\ nops[p] < MaxOps
    /\ \E file \in Files, ref \in Refs :
          Start(p, [NoOp EXCEPT !.name = "upload", !.file = file, !.ref = ref,
                                !.stage = "post"],
                UploadRequest(cfg, file, ref, clock))

\* the blocked caller's urlopen returns or raises, and the operation runs on
Continue(p) ==
    /\ pc[p] = "got"
    /\ LET r == InFlight(p).resp
           o == op[p]
           cur == GetUpdatedAt(FirstPost(HandleResponse(r)))
       IN  CASE o.name \in {"get", "post", "put", "delete"} ->
                    Finish(p, HandleResponse(r))
             [] o.name = "create_post" ->
                    Finish(p, FirstPost(HandleResponse(r)))
             [] o.name = "update_post" /\ o.stage = "get" ->
                    IF Propagates(cur) THEN Finish(p, cur)
                    ELSE Send(p, "put", UpdateRequest(cfg, o.post_id, o.post_data, cur.value, clock))
             [] o.name = "update_post" /\ o.stage = "put" ->
                    Finish(p, FirstPost(HandleResponse(r)))
             [] o.name = "push" /\ o.stage = "get" ->
                    IF Propagates(cur) THEN Finish(p, cur)
                    ELSE Send(p, "put", PushRequest(cfg, o.post_id, o.post_data["html"], cur.value, clock))
             [] o.name = "push" /\ o.stage = "put" ->
                    IF HandleResponse(r).status = "err" THEN Finish(p, HandleResponse(r))
                    ELSE Finish(p, Ok(Null))
             [] o.name = "upload" ->
                    Finish(p, UploadResponse(r))

Tick ==
    /\ clock < MaxClock
    /\ clock' = clock + 1
    /\ UNCHANGED <<cfg, server, seq, pc, op, log, result, nops>>

----------------------------------------------------------------------------
(* The transport and the server *)

Deliver(p, r) ==
    /\ pc' = [pc EXCEPT ![p] = "got"]
    /\ seq' = seq + 1
    /\ log' = [log EXCEPT ![p][Len(log[p])].resp = r, ![p][Len(log[p])].seq = seq + 1]
    /\ UNCHANGED <<cfg, clock, op, result, nops>>

TransportFails(p) ==
    /\ pc[p] = "wait"
    /\ Deliver(p, TransportFailure)
    /\ UNCHANGED server

Answer(p) ==
    /\ pc[p] = "wait"
    /\ \E r \in CannedResponses : Deliver(p, r)
    /\ UNCHANGED server

OnPost(req) == \E id \in PostIds : req.path = PostPath(id)

ServeGet(p) ==
    /\ pc[p] = "wait"
    /\ InFlight(p).method = "GET"
    /\ OnPost(InFlight(p))
    /\ Deliver(p, Http(200, Body("<post>", Envelope(PostOf(server, InFlight(p).path)))))
    /\ UNCHANGED server

PutPost(req) == FirstPost(Ok(req.body))

Servable(req) ==
    /\ req.method = "PUT"
    /\ OnPost(req)
    /\ PutPost(req).status = "ok"
    /\ PutPost(req).value.t = "obj"

ServePut(p) ==
    /\ pc[p] = "wait"
    /\ Servable(InFlight(p))
    /\ LET post == PutPost(InFlight(p)).value.v
       IN  IF TimestampMatches(server, post)
           THEN \E v \in {server.v, server.v + 1} :
                   /\ v <= MaxWrites
                   /\ server' = [v |-> v, data |-> Merge(server.data, post)]
                   /\ Deliver(p, Http(200, Body("<post>", Envelope(PostOf(server', InFlight(p).path)))))
           ELSE /\ server' = server
                /\ Deliver(p, Http(409, BodyCollision))

ServeCreate(p) ==
    /\ pc[p] = "wait"
    /\ InFlight(p).method = "POST"
    /\ InFlight(p).path = AdminPosts
    /\ PutPost(InFlight(p)).status = "ok"
    /\ PutPost(InFlight(p)).value.t = "obj"
    /\ Deliver(p, Http(201, Body("<post>",
                 Envelope(SetKey(SetKey(PutPost(InFlight(p)).value.v, "id", Str("2")),
                                 "updated_at", Str(Ts(0)))))))
    /\ UNCHANGED server

----------------------------------------------------------------------------
(* Specifications *)

Next ==
    \/ \E p \in Callers : Get(p)
    \/ \E p \in Callers : Post(p)
    \/ \E p \in Callers : Put(p)
    \/ \E p \in Callers : Delete(p)
    \/ \E p \in Callers : CreatePost(p)
    \/ \E p \in Callers : UpdatePost(p)
    \/ \E p \in Callers : Push(p)
    \/ \E p \in Callers : Upload(p)
    \/ \E p \in Callers : Continue(p)
    \/ \E p \in Callers : TransportFails(p)
    \/ \E p \in Callers : Answer(p)
    \/ \E p \in Callers : ServeGet(p)
    \/ \E p \in Callers : ServePut(p)
    \/ \E p \in Callers : ServeCreate(p)
    \/ Tick

Spec == Init /\ [][Next]_vars

\* two callers, each making one update_post call without a timestamp
RaceUpdate(p) ==
    /\ nops[p] = 0
    /\ \E post_id \in PostIds, post_data \in RacePayloads(p) :
          BeginUpdate(p, post_id, post_data, NoneTs)

InitRace ==
    /\ Init
    /\ cfg = NewGhost(<<"h">>, "ck", <<"k", ":", "0", "a">>)

NextRace ==
    \/ \E p \in RaceCallers : RaceUpdate(p)
    \/ \E p \in RaceCallers : Continue(p)
    \/ \E p \in RaceCallers : ServeGet(p)
    \/ \E p \in RaceCallers : ServePut(p)
    \/ \E p \in RaceCallers : TransportFails(p)

SpecRace == InitRace /\ [][NextRace]_vars

----------------------------------------------------------------------------
(* Properties *)

IsCall(o) == o.name \in {"get", "post", "put", "delete"}
Finished(p) == pc[p] = "done"
Last(p) == log[p][Len(log[p])]
Answered(p) == Finished(p) /\ Len(log[p]) >= 1
Non2xx(r) == r.kind = "http" /\ ~(200 <= r.status /\ r.status < 300)
Success2xx(r) == r.kind = "http" /\ 200 <= r.status /\ r.status < 300
FailedResponse(r) == r.kind = "transport" \/ Non2xx(r)
OnContent(path) == Len(path) >= 8 /\ SubSeq(path, 1, 8) = cContent
OnAdmin(path) == Len(path) >= 6 /\ SubSeq(path, 1, 6) = cAdmin
ResourcePath(post_id) == cAdmin \o cPosts \o <<"/">> \o post_id
HasSource(r) == "source" \in DOMAIN r.params /\ r.params["source"] = "html"
\* the updated_at inside {"posts": [{...}]}
EnvelopeTs(j) == j.v["posts"].v[1].v["updated_at"]
SameJson(a, b) == a.t = b.t /\ a.v = b.v

\* C1: a get/post/put/delete call whose path starts with neither "content/" nor
\* "admin/" has failed with ValueError (the InvalidPathError of the specification)
\* and has put no request on the wire.
C1_InvalidPathRejected ==
    \A p \in AllCallers :
        (IsCall(op[p]) /\ ~OnContent(op[p].path) /\ ~OnAdmin(op[p].path))
            => /\ Finished(p)
               /\ result[p].status = "err"
               /\ result[p].err.cls = "ValueError"
               /\ log[p] = << >>

C1_Witness ==
    \E p \in AllCallers :
        /\ op[p].name = "post"
        /\ op[p].path = <<"a", "d", "m", "i", "n">>
        /\ cfg.admin_key = <<"k", ":", "0", "a">>
        /\ Finished(p)
        /\ result[p].err.cls = "ValueError"
        /\ log[p] = << >>

\* C2: every request _request has dispatched is authenticated by its path prefix:
\* on "content/" its key parameter is the configured content key, whatever the
\* caller passed, and it has no Authorization header; on "admin/" it carries
\* Authorization "Ghost <token>" with iat the clock at dispatch and exp = iat + 300,
\* so two requests dispatched at different times never share a token.
C2_AuthByPrefix ==
    \A p \in AllCallers :
        op[p].name # "upload" =>
            \A i \in DOMAIN log[p] :
                LET r == log[p][i]
                IN  /\ OnContent(r.path) =>
                          /\ "key" \in DOMAIN r.params
                          /\ r.params["key"] = cfg.content_key
                          /\ cfg.content_key # ""
                          /\ "Authorization" \notin DOMAIN r.headers
                    /\ OnAdmin(r.path) =>
                          /\ "Authorization" \in DOMAIN r.headers
                          /\ r.headers["Authorization"].scheme = "Ghost"
                          /\ r.headers["Authorization"].token.payload.iat = r.at
                          /\ r.headers["Authorization"].token.payload.exp = r.at + 300
                          /\ \A j \in 1..(i - 1) :
                                log[p][j].at # r.at =>
                                    log[p][j].headers["Authorization"].token
                                        # r.headers["Authorization"].token
                    /\ OnContent(r.path) \/ OnAdmin(r.path)

C2_Witness ==
    \E p \in AllCallers :
        /\ op[p].name = "get"
        /\ OnContent(op[p].path)
        /\ op[p].params = [key |-> "other"]
        /\ Len(log[p]) = 1
        /\ log[p][1].params = [key |-> "ck"]
        /\ DOMAIN log[p][1].headers = {}

\* C3: update_post (and push, which has no timestamp to pass) without a known
\* timestamp puts on the wire one GET of admin/posts/{id} and then, once that GET
\* has returned the post, one PUT of admin/posts/{id} whose body carries the
\* updated_at the GET returned, and it returns a post only after both; with a known
\* timestamp it issues no GET, and its one PUT carries the timestamp supplied.
C3_FetchThenPut ==
    \A p \in AllCallers :
        op[p].name \in {"update_post", "push"} =>
            LET o == op[p]
                l == log[p]
            IN  IF o.name = "push" \/ o.updated_at = "None"
                THEN /\ Len(l) <= 2
                     /\ Len(l) >= 1 => l[1].method = "GET" /\ l[1].path = ResourcePath(o.post_id)
                     /\ Len(l) = 2 =>
                           /\ l[2].method = "PUT"
                           /\ l[2].path = ResourcePath(o.post_id)
                           /\ Success2xx(l[1].resp)
                           /\ l[1].seq < l[2].seq \/ l[2].seq = 0
                           /\ SameJson(EnvelopeTs(l[2].body), EnvelopeTs(l[1].resp.body.val))
                     /\ (Finished(p) /\ result[p].status = "ok") => Len(l) = 2
                ELSE /\ Len(l) <= 1
                     /\ Len(l) = 1 =>
                           /\ l[1].method = "PUT"
                           /\ l[1].path = ResourcePath(o.post_id)
                           /\ SameJson(EnvelopeTs(l[1].body), Str(o.updated_at))
                     /\ (Finished(p) /\ result[p].status = "ok") => Len(l) = 1

C3_Witness ==
    \E p \in AllCallers :
        /\ op[p].name = "update_post"
        /\ op[p].updated_at = "None"
        /\ "updated_at" \in DOMAIN op[p].post_data
        /\ Finished(p)
        /\ result[p].status = "ok"
        /\ Len(log[p]) = 2
        /\ EnvelopeTs(log[p][1].resp.body.val) = Str("t0")
        /\ EnvelopeTs(log[p][2].body) = Str("t0")

\* the message the specification gives a non-2xx response with this body
C4_Message(body) ==
    IF /\ body.val.t = "obj"
       /\ "errors" \in DOMAIN body.val.v
       /\ body.val.v["errors"].t = "arr"
       /\ Len(body.val.v["errors"].v) > 0
       /\ body.val.v["errors"].v[1].t = "obj"
       /\ "message" \in DOMAIN body.val.v["errors"].v[1].v
    THEN body.val.v["errors"].v[1].v["message"].v
    ELSE body.text

\* C4 (as claimed): every non-2xx response to a call surfaces as the Exception
\* "HTTP {status}: {message}" of _request, carrying the status, its message being
\* errors[0].message when the body is a JSON object whose errors array has a first
\* element with a message, and the raw body text in every other case.
C4_ErrorMapping ==
    \A p \in AllCallers :
        (IsCall(op[p]) /\ Answered(p) /\ Non2xx(Last(p).resp))
            => /\ result[p].status = "err"
               /\ result[p].err.cls = "Exception"
               /\ result[p].err.code = Last(p).resp.status
               /\ result[p].err.msg = C4_Message(Last(p).resp.body)

\* C6 (as claimed, for a response body that is a JSON object or no JSON at all,
\* where the message extraction of C4 does not fail): in call, create_post,
\* update_post and upload alike, a non-2xx response surfaces as the Exception
\* carrying the status (the APIError), and a transport failure as URLError, which
\* is no APIError.
C6_TypedFailures ==
    \A p \in AllCallers :
        (op[p].name # "push" /\ Answered(p))
            => /\ (Non2xx(Last(p).resp) /\ Last(p).resp.body.val.t \in {"obj", "invalid"}) =>
                     /\ result[p].status = "err"
                     /\ result[p].err.cls = "Exception"
                     /\ result[p].err.code = Last(p).resp.status
               /\ Last(p).resp.kind = "transport" =>
                     /\ result[p].status = "err"
                     /\ result[p].err.cls = "URLError"

\* an admin key that is absent, has no separator or has a secret that is not hexadecimal
C7_KeyMalformed(key) ==
    \/ key = << >>
    \/ ~HasChar(key, ":")
    \/ ~IsHex(SubSeq(key, FirstIndex(key, ":") + 1, Len(key)))

C7_AdminOperation(o) ==
    \/ IsCall(o) /\ OnAdmin(o.path)
    \/ o.name = "upload" /\ o.file.readable

\* C7 (as claimed): an admin call or an upload made when the admin key is absent,
\* has no ":" or has a secret that is not hexadecimal fails with EnvironmentError,
\* the class raised for a missing base URL, not with the ValueError of an invalid
\* path, and puts no request on the wire.
C7_ConfigurationError ==
    \A p \in AllCallers :
        (C7_AdminOperation(op[p]) /\ C7_KeyMalformed(cfg.admin_key))
            => /\ Finished(p)
               /\ result[p].status = "err"
               /\ result[p].err.cls = NewGhost(<< >>, "", << >>).err.cls
               /\ result[p].err.cls # "ValueError"
               /\ log[p] = << >>

\* C8 (as claimed): of the 2xx responses to a call, a 204 yields None, neither an
\* error nor an empty object, and any other, its body JSON or empty, yields the
\* parsed body without an error.
C8_SuccessMapping ==
    \A p \in AllCallers :
        (IsCall(op[p]) /\ Answered(p) /\ Success2xx(Last(p).resp))
            => IF Last(p).resp.status = 204
               THEN result[p].status = "ok" /\ result[p].value.t = "null"
               ELSE (Last(p).resp.body.val.t # "invalid" \/ Last(p).resp.body.text = "")
                        => /\ result[p].status = "ok"
                           /\ Last(p).resp.body.val.t # "invalid"
                                 => SameJson(result[p].value, Last(p).resp.body.val)

\* C9: no operation retries and none returns a partial result: a call, a
\* create_post and an upload put at most one request on the wire, an update_post
\* at most two; no request follows one that failed (after a failed GET no PUT is
\* issued); an operation whose last request failed ends with an error; and an
\* operation that ends with an error returns no value.
C9_NoRetryNoPartial ==
    \A p \in AllCallers :
        /\ op[p].name \in {"get", "post", "put", "delete", "create_post", "upload"}
              => Len(log[p]) <= 1
        /\ Len(log[p]) <= 2
        /\ \A i \in DOMAIN log[p] : FailedResponse(log[p][i].resp) => i = Len(log[p])
        /\ (pc[p] \in {"wait", "got"}) => result[p].status = "none"
        /\ (Answered(p) /\ FailedResponse(Last(p).resp)) => result[p].status = "err"
        /\ result[p].status = "err" => result[p].value.t = "null"

C9_Witness ==
    \E p \in AllCallers :
        /\ op[p].name = "update_post"
        /\ op[p].updated_at = "None"
        /\ Finished(p)
        /\ Len(log[p]) = 1
        /\ log[p][1].method = "GET"
        /\ log[p][1].resp.kind = "http"
        /\ log[p][1].resp.status = 500
        /\ result[p].status = "err"

\* C10: the POST of create_post and the PUT of update_post (and of push) carry the
\* query parameter source=html exactly when the payload has an html key; the GET
\* of update_post carries no source parameter.
C10_SourceHtml ==
    \A p \in AllCallers :
        op[p].name \in {"create_post", "update_post", "push"} =>
            \A i \in DOMAIN log[p] :
                LET r == log[p][i]
                IN  IF r.method = "GET"
                    THEN "source" \notin DOMAIN r.params
                    ELSE /\ r.method = (IF op[p].name = "create_post" THEN "POST" ELSE "PUT")
                         /\ HasSource(r) <=> "html" \in DOMAIN op[p].post_data
                         /\ "source" \in DOMAIN r.params => HasSource(r)

C10_Witness ==
    \E p \in AllCallers :
        /\ op[p].name = "update_post"
        /\ op[p].updated_at = "None"
        /\ "html" \in DOMAIN op[p].post_data
        /\ Len(log[p]) = 2
        /\ ~HasSource(log[p][1])
        /\ HasSource(log[p][2])

----------------------------------------------------------------------------
(* Two concurrent update_post calls *)

RaceBothPut == \A p \in RaceCallers : Len(log[p]) = 2 /\ log[p][2].resp.kind = "http"
\* both GETs were answered before either PUT was
RaceOverlap ==
    /\ RaceBothPut
    /\ \A p \in RaceCallers, q \in RaceCallers : log[p][1].seq < log[q][2].seq
RaceFirst == CHOOSE p \in RaceCallers : \A q \in RaceCallers : log[p][2].seq <= log[q][2].seq
RaceLast == CHOOSE p \in RaceCallers : p # RaceFirst
HoldsPayloadOf(p) == \A k \in DOMAIN op[p].post_data : server.data[k] = op[p].post_data[k]

\* C5 (as claimed): when both GETs are answered before either PUT, both PUTs carry
\* the same updated_at, both are applied, and the post ends with the payload of the
\* PUT processed last.
C5_LastWriterWins ==
    RaceOverlap =>
        /\ SameJson(EnvelopeTs(log[1][2].body), EnvelopeTs(log[2][2].body))
        /\ \A p \in RaceCallers : Success2xx(log[p][2].resp)
        /\ HoldsPayloadOf(RaceLast)

\* C5 (amended): the client does not serialize the two calls: when both GETs are
\* answered before either PUT, both PUTs carry the same updated_at, the one each
\* GET returned. The PUT processed first is applied. The PUT processed last is
\* applied, and the post ends with its payload, only if the first write left
\* updated_at unchanged; otherwise the server's timestamp check rejects it, its
\* caller ends with the Exception carrying the status, and the post keeps the
\* payload of the first PUT.
C5_RaceOutcome ==
    RaceOverlap =>
        /\ SameJson(EnvelopeTs(log[1][2].body), EnvelopeTs(log[2][2].body))
        /\ \A p \in RaceCallers :
              SameJson(EnvelopeTs(log[p][2].body), EnvelopeTs(log[p][1].resp.body.val))
        /\ Success2xx(log[RaceFirst][2].resp)
        /\ IF SameJson(EnvelopeTs(log[RaceFirst][2].resp.body.val), EnvelopeTs(log[RaceFirst][2].body))
           THEN /\ Success2xx(log[RaceLast][2].resp)
                /\ HoldsPayloadOf(RaceLast)
           ELSE /\ Non2xx(log[RaceLast][2].resp)
                /\ HoldsPayloadOf(RaceFirst)
                /\ Finished(RaceLast) =>
                      /\ result[RaceLast].status = "err"
                      /\ result[RaceLast].err.cls = "Exception"
                      /\ result[RaceLast].err.code = log[RaceLast][2].resp.status

C5_Witness ==
    /\ RaceOverlap
    /\ \A p \in RaceCallers : Finished(p)
    /\ EnvelopeTs(log[1][2].body) = Str("t0")
    /\ EnvelopeTs(log[2][2].body) = Str("t0")
    /\ result[RaceFirst].status = "ok"
    /\ result[RaceLast].err.cls = "Exception"
    /\ ~HoldsPayloadOf(RaceLast)

====
